---------------------------- MODULE Spec2Model ----------------------------
(***************************************************************************)
(* Model of .github/actions/smoke-test/smoke.py: the placeholder           *)
(* substitution over a workspace, the test-directory overlay, and the      *)
(* build / test actions with their exit codes.                             *)
(*                                                                         *)
(* Text is a sequence of Unicode code points, file content a sequence of   *)
(* bytes (0..255).                                                         *)
(***************************************************************************)
EXTENDS Integers, Sequences, FiniteSets, TLC

\* ------------------------------------------------------------------ bounds
MaxKeys == 2      \* option keys declared by one descriptor
MaxParts == 2     \* fragments concatenated into the content of one file
MaxRuns == 2      \* consecutive calls of configure_template_options
MaxNames == 2     \* entry names in a test / utils / destination directory

\* ------------------------------------------------------------ text helpers
RECURSIVE Flatten(_)
Flatten(ss) == IF ss = <<>> THEN <<>> ELSE Head(ss) \o Flatten(Tail(ss))

\* str.encode("utf-8") for code points below 65536
Utf8Char(c) ==
    IF c < 128 THEN <<c>>
    ELSE IF c < 2048 THEN <<192 + (c \div 64), 128 + (c % 64)>>
    ELSE <<224 + (c \div 4096), 128 + ((c \div 64) % 64), 128 + (c % 64)>>

Utf8Encode(s) == Flatten([i \in 1..Len(s) |-> Utf8Char(s[i])])

\* str.isspace for the code points below 256
IsSpace(c) == c \in {9, 10, 11, 12, 13, 28, 29, 30, 31, 32, 133, 160}

RECURSIVE LStrip(_)
LStrip(s) == IF s # <<>> /\ IsSpace(Head(s)) THEN LStrip(Tail(s)) ELSE s

RECURSIVE RStrip(_)
RStrip(s) ==
    IF s # <<>> /\ IsSpace(s[Len(s)]) THEN RStrip(SubSeq(s, 1, Len(s) - 1)) ELSE s

\* str.strip()
Strip(s) == RStrip(LStrip(s))

RECURSIVE Decimal(_)
Decimal(n) == IF n < 10 THEN <<48 + n>> ELSE Decimal(n \div 10) \o <<48 + (n % 10)>>

\* `sub in content` on bytes
MatchAt(content, sub, i) ==
    /\ i + Len(sub) - 1 <= Len(content)
    /\ SubSeq(content, i, i + Len(sub) - 1) = sub

Contains(content, sub) == \E i \in 1..(Len(content) + 1) : MatchAt(content, sub, i)

\* bytes.replace(old, new) for a non-empty old: leftmost matches, left to
\* right, never overlapping
RECURSIVE ReplaceFrom(_, _, _, _)
ReplaceFrom(content, old, new, i) ==
    IF i > Len(content) THEN <<>>
    ELSE IF MatchAt(content, old, i)
         THEN new \o ReplaceFrom(content, old, new, i + Len(old))
         ELSE <<content[i]>> \o ReplaceFrom(content, old, new, i + 1)

BytesReplaceFirst(content, old, new) ==
    IF \E i \in 1..Len(content) : MatchAt(content, old, i)
    THEN LET i == CHOOSE j \in 1..Len(content) :
                     /\ MatchAt(content, old, j)
                     /\ \A k \in 1..(j - 1) : ~MatchAt(content, old, k)
         IN SubSeq(content, 1, i - 1) \o new
                \o SubSeq(content, i + Len(old), Len(content))
    ELSE content

BytesReplace(content, old, new) == ReplaceFrom(content, old, new, 1)

\* ------------------------------------------------- descriptor and options
\* f"${{templateOption:{option_key}}}"
Placeholder(option_key) ==
    <<36, 123, 116, 101, 109, 112, 108, 97, 116, 101, 79, 112, 116, 105, 111,
      110, 58>> \o option_key \o <<125>>

\* An option descriptor as json.load returns it: an object with a string or
\* an integer default, an object without default, or a value that is no object.
StrSpec(s) == [t |-> "str", s |-> s, n |-> 0]
IntSpec(n) == [t |-> "int", s |-> <<>>, n |-> n]
NoDefault == [t |-> "absent", s |-> <<>>, n |-> 0]
NotAnObject == [t |-> "nonobj", s |-> <<>>, n |-> 0]

KeyA == <<97>>            \* "a"
KeyB == <<98>>            \* "b"
KeyABrace == <<97, 125>>  \* "a}": its placeholder starts with the one of "a"
OptionKeys == {KeyA, KeyB, KeyABrace}

OptionSpecs ==
    { StrSpec(<<49>>),             \* "1"
      StrSpec(KeyA),               \* "a"
      StrSpec(<<32>>),             \* " "
      IntSpec(2),
      NoDefault,
      NotAnObject }

KeySeqs ==
    UNION { { ks \in [1..n -> OptionKeys] : \A i, j \in 1..n : ks[i] = ks[j] => i = j }
            : n \in 0..MaxKeys }

OptionMaps ==
    UNION { { [i \in 1..Len(ks) |-> [key |-> ks[i], spec |-> sp[i]]]
              : sp \in [1..Len(ks) -> OptionSpecs] } : ks \in KeySeqs }

\* the parsed descriptor: no "options" member, a non-empty list as "options",
\* or an object as "options" (its members in document order)
\* descriptors with a default that is itself a placeholder: substitution
\* rewrites the descriptor file
SelfReferringMaps ==
    { <<[key |-> KeyA, spec |-> StrSpec(<<49>>)],
        [key |-> KeyB, spec |-> StrSpec(Placeholder(KeyA))]>>,
      <<[key |-> KeyB, spec |-> StrSpec(Placeholder(KeyA))],
        [key |-> KeyA, spec |-> IntSpec(2)]>>,
      <<[key |-> KeyA, spec |-> StrSpec(Placeholder(KeyA))]>> }

Docs ==
    { [kind |-> "noopts", opts |-> <<>>], [kind |-> "list", opts |-> <<>>] }
        \cup { [kind |-> "map", opts |-> m] : m \in OptionMaps \cup SelfReferringMaps }

JsonChar(c) == IF c \in {34, 92} THEN <<92, c>> ELSE Utf8Char(c)

JsonString(s) == <<34>> \o Flatten([i \in 1..Len(s) |-> JsonChar(s[i])]) \o <<34>>

JsonSpec(sp) ==
    CASE sp.t = "str" -> <<123, 34, 100, 101, 102, 97, 117, 108, 116, 34, 58>>
                            \o JsonString(sp.s) \o <<125>>
      [] sp.t = "int" -> <<123, 34, 100, 101, 102, 97, 117, 108, 116, 34, 58>>
                            \o Decimal(sp.n) \o <<125>>
      [] sp.t = "absent" -> <<123, 125>>
      [] OTHER -> <<48>>

JsonMember(o, first) ==
    (IF first THEN <<>> ELSE <<44>>) \o JsonString(o.key) \o <<58>> \o JsonSpec(o.spec)

\* the bytes of devcontainer-template.json for a parsed descriptor
ToJson(doc) ==
    CASE doc.kind = "noopts" -> <<123, 34, 105, 100, 34, 58, 34, 116, 34, 125>>
      [] doc.kind = "list" ->
            <<123, 34, 111, 112, 116, 105, 111, 110, 115, 34, 58, 91, 48, 93, 125>>
      [] OTHER ->
            <<123, 34, 111, 112, 116, 105, 111, 110, 115, 34, 58, 123>>
                \o Flatten([i \in 1..Len(doc.opts) |-> JsonMember(doc.opts[i], i = 1)])
                \o <<125, 125>>

\* ---- json.load, for descriptors written without white space
Bad == [ok |-> FALSE, val |-> <<>>, next |-> 0]

\* the characters of a JSON string up to its closing quote, from byte j on
RECURSIVE StringBody(_, _, _)
StringBody(b, j, acc) ==
    IF j > Len(b) THEN Bad
    ELSE IF b[j] = 34 THEN [ok |-> TRUE, val |-> acc, next |-> j + 1]
    ELSE IF b[j] = 92
         THEN IF j + 1 <= Len(b) /\ b[j + 1] \in {34, 92}
              THEN StringBody(b, j + 2, Append(acc, b[j + 1]))
              ELSE Bad
    ELSE IF b[j] >= 32 /\ b[j] < 128 THEN StringBody(b, j + 1, Append(acc, b[j]))
    ELSE IF b[j] >= 194 /\ b[j] < 224 /\ j + 1 <= Len(b) /\ b[j + 1] \in 128..191
         THEN StringBody(b, j + 2, Append(acc, (b[j] - 192) * 64 + (b[j + 1] - 128)))
    ELSE Bad

ParseString(b, i) == IF i <= Len(b) /\ b[i] = 34 THEN StringBody(b, i + 1, <<>>) ELSE Bad

RECURSIVE Digits(_, _, _)
Digits(b, j, n) ==
    IF j <= Len(b) /\ b[j] \in 48..57 THEN Digits(b, j + 1, 10 * n + (b[j] - 48))
    ELSE [ok |-> TRUE, val |-> n, next |-> j]

\* a number without sign, fraction or leading zero
ParseInt(b, i) ==
    IF i <= Len(b) /\ b[i] \in 48..57 /\ ~(b[i] = 48 /\ i + 1 <= Len(b) /\ b[i + 1] \in 48..57)
    THEN Digits(b, i, 0)
    ELSE Bad

\* the value of one member of "options"
ParseSpec(b, i) ==
    IF MatchAt(b, <<123, 125>>, i)
    THEN [ok |-> TRUE, val |-> NoDefault, next |-> i + 2]
    ELSE IF MatchAt(b, <<123, 34, 100, 101, 102, 97, 117, 108, 116, 34, 58>>, i)
    THEN LET str == ParseString(b, i + 11)
             int == ParseInt(b, i + 11)
             v == IF str.ok THEN [ok |-> TRUE, val |-> StrSpec(str.val), next |-> str.next]
                  ELSE IF int.ok
                       THEN [ok |-> TRUE, val |-> IntSpec(int.val), next |-> int.next]
                       ELSE Bad
         IN IF v.ok /\ MatchAt(b, <<125>>, v.next)
            THEN [ok |-> TRUE, val |-> v.val, next |-> v.next + 1]
            ELSE Bad
    ELSE LET int == ParseInt(b, i)
         IN IF int.ok THEN [ok |-> TRUE, val |-> NotAnObject, next |-> int.next] ELSE Bad

\* dict semantics: a repeated key keeps its first position and takes the
\* last value
PutOption(opts, key, spec) ==
    IF \E k \in 1..Len(opts) : opts[k].key = key
    THEN [k \in 1..Len(opts) |->
             IF opts[k].key = key THEN [key |-> key, spec |-> spec] ELSE opts[k]]
    ELSE Append(opts, [key |-> key, spec |-> spec])

\* the members of "options" from byte i on, up to the closing brace
RECURSIVE ParseMembers(_, _, _)
ParseMembers(b, i, acc) ==
    LET k == ParseString(b, i)
        v == IF k.ok /\ MatchAt(b, <<58>>, k.next) THEN ParseSpec(b, k.next + 1) ELSE Bad
    IN IF ~v.ok THEN Bad
       ELSE IF MatchAt(b, <<44>>, v.next)
            THEN ParseMembers(b, v.next + 1, PutOption(acc, k.val, v.val))
       ELSE IF MatchAt(b, <<125>>, v.next)
            THEN [ok |-> TRUE, val |-> PutOption(acc, k.val, v.val), next |-> v.next + 1]
       ELSE Bad

Invalid == [kind |-> "invalid", opts |-> <<>>]

\* json.load on the bytes of the descriptor; "invalid" is json.JSONDecodeError
json_load(bytes) ==
    IF bytes = <<123, 34, 105, 100, 34, 58, 34, 116, 34, 125>>
    THEN [kind |-> "noopts", opts |-> <<>>]
    ELSE IF bytes = <<123, 34, 111, 112, 116, 105, 111, 110, 115, 34, 58, 91, 48, 93, 125>>
    THEN [kind |-> "list", opts |-> <<>>]
    ELSE IF MatchAt(bytes, <<123, 34, 111, 112, 116, 105, 111, 110, 115, 34, 58, 123>>, 1)
    THEN LET m == IF MatchAt(bytes, <<125>>, 13)
                  THEN [ok |-> TRUE, val |-> <<>>, next |-> 14]
                  ELSE ParseMembers(bytes, 13, <<>>)
         IN IF m.ok /\ MatchAt(bytes, <<125>>, m.next) /\ m.next = Len(bytes)
            THEN [kind |-> "map", opts |-> m.val]
            ELSE Invalid
    ELSE Invalid

\* str(default_value)
PyStr(sp) == IF sp.t = "str" THEN sp.s ELSE Decimal(sp.n)

\* option_spec.get("default") when option_spec is a dict, else None
HasDefault(sp) == sp.t \in {"str", "int"}

MissingDefaultNoStrip(sp) == ~HasDefault(sp) \/ (sp.t = "str" /\ sp.s = <<>>)

\* the condition of lines 170-172
MissingDefault(sp) == ~HasDefault(sp) \/ (sp.t = "str" /\ Strip(sp.s) = <<>>)

\* ------------------------------------------------------ workspace contents
DescriptorName == "devcontainer-template.json"
ConfigName == ".devcontainer/devcontainer.json"
ReadmeName == "README.md"

Fragments ==
    { Utf8Encode(Placeholder(KeyA)),
      \* "${templateOption:${templateOption:b}}"
      Utf8Encode(Placeholder(Placeholder(KeyB))),
      <<125>> }     \* "}"

FragmentSeqs == UNION { [1..n -> Fragments] : n \in 0..MaxParts }

Contents == { Flatten(fs) : fs \in FragmentSeqs }

\* README.md: a byte that is no UTF-8, followed by a placeholder
Readmes == { <<255>> \o Utf8Encode(Placeholder(KeyA)) }

Workspaces ==
    { [p \in {DescriptorName, ConfigName, ReadmeName} |->
          IF p = DescriptorName THEN ToJson(d) ELSE IF p = ConfigName THEN c ELSE r]
      : d \in Docs, c \in Contents, r \in Readmes }
    \cup
    \* a template without descriptor, and one whose descriptor is not JSON
    { [p \in {ConfigName} |-> c] : c \in Contents }
    \cup
    { [p \in {DescriptorName, ConfigName} |-> IF p = DescriptorName THEN <<123>> ELSE c]
      : c \in Contents }

\* ---------------------------------------------------------------- variables
VARIABLES
    files,      \* the workspace: path of each regular file |-> its bytes
    hist,       \* one record per finished call of configure_template_options
    testDir,    \* <project root>/test/<template id>
    utilsDir,   \* <project root>/test/utils
    wsTest,     \* <workspace>/test
    copyHist,   \* one record per finished call of copy_test_directory
    pc,         \* position of the process in main
    action,     \* args.action
    tmpdir,     \* args.tmpdir
    gha,        \* the environment variable GITHUB_OUTPUT
    srcDir,     \* <cwd>/src/<template id>
    stages,     \* the stages of the action entered so far, in order
    error,      \* the exception that reached main, "none" without one
    raisedIn,   \* the stage that raised it
    exitCode,   \* exit status of the process, -1 while it runs
    stdout,     \* what was printed to standard output
    ghaFile,    \* what was appended to the file GITHUB_OUTPUT names
    cmd,        \* the outcome of the external command of the action
    cleanup     \* the clean-up steps of the test action attempted so far

cfgVars == <<files, hist>>
copyVars == <<testDir, utilsDir, wsTest, copyHist>>
argVars == <<action, tmpdir, gha, srcDir>>
outVars == <<stdout, ghaFile>>
mainVars == <<pc, action, tmpdir, gha, srcDir, stages, error, raisedIn, exitCode,
              stdout, ghaFile, cmd, cleanup>>

\* os.getenv / argparse: a value that is absent (None) or a string
None == [given |-> FALSE, value |-> <<>>]
Given(value) == [given |-> TRUE, value |-> value]

NoFiles == [p \in {} |-> <<>>]

\* a directory of regular files that may not exist
NoSource == [exists |-> FALSE, files |-> NoFiles]
Source(fs) == [exists |-> TRUE, files |-> fs]

NoCommand == [kind |-> "none", code |-> 0, stdout |-> <<>>, stderr |-> <<>>]
NoCleanup == [ps |-> FALSE, rm |-> FALSE, rmtree |-> FALSE]

\* no process is running
MainIdle ==
    /\ pc = "idle"
    /\ action = "none"
    /\ tmpdir = None
    /\ gha = None
    /\ srcDir = NoSource
    /\ stages = <<>>
    /\ error = "none"
    /\ raisedIn = ""
    /\ exitCode = -1
    /\ stdout = <<>>
    /\ ghaFile = <<>>
    /\ cmd = NoCommand
    /\ cleanup = NoCleanup

\* -------------------------------------------------------- replace_in_files
WritesAlways(content, new_content, search_term_b) == TRUE

\* lines 125-129: the file is opened for writing only then
Writes(content, new_content, search_term_b) ==
    Contains(content, search_term_b) /\ new_content # content

\* the outcome of one call: the files afterwards and the paths written
replace_in_files(root, search_term, replacement) ==
    LET search_term_b == Utf8Encode(search_term)
        replacement_b == Utf8Encode(replacement)
        new(p) == BytesReplace(root[p], search_term_b, replacement_b)
        written == { p \in DOMAIN root : Writes(root[p], new(p), search_term_b) }
    IN [ files |-> [p \in DOMAIN root |-> IF p \in written THEN new(p) ELSE root[p]],
         written |-> written ]

\* ------------------------------------------- replace_template_placeholders
DefaultOfFirstOption(options, i) == PyStr(options[1].spec)

\* default_value_str of the i-th loop iteration (lines 165-168, 178)
DefaultValueStr(options, i) == PyStr(options[i].spec)

\* the loop from its i-th key on; calls is the list of replace_in_files calls
\* made so far
RECURSIVE PlaceholdersFrom(_, _, _, _)
PlaceholdersFrom(workspace_dir, options, i, calls) ==
    IF i > Len(options)
    THEN [files |-> workspace_dir, status |-> "returned", key |-> <<>>, calls |-> calls]
    ELSE LET option_key == options[i].key
             option_spec == options[i].spec
             placeholder == Placeholder(option_key)
         IN IF MissingDefault(option_spec)
            THEN [files |-> workspace_dir, status |-> "ActionBuildError",
                  key |-> option_key, calls |-> calls]
            ELSE LET default_value_str == DefaultValueStr(options, i)
                     r == replace_in_files(workspace_dir, placeholder, default_value_str)
                 IN PlaceholdersFrom(r.files, options, i + 1,
                        Append(calls, [key |-> option_key,
                                       search_term |-> placeholder,
                                       replacement |-> default_value_str,
                                       before |-> workspace_dir,
                                       after |-> r.files,
                                       written |-> r.written]))

replace_template_placeholders(workspace_dir, options) ==
    PlaceholdersFrom(workspace_dir, options, 1, <<>>)

\* ---------------------------------------------- configure_template_options
NoCall(workspace_dir, status) ==
    [files |-> workspace_dir, status |-> status, key |-> <<>>, calls |-> <<>>]

\* lines 151-157: the options of the parsed descriptor are applied
ConfigureWith(workspace_dir, data) ==
    IF data.kind = "invalid" THEN NoCall(workspace_dir, "JSONDecodeError")
    ELSE IF data.kind # "map" \/ data.opts = <<>>
         THEN NoCall(workspace_dir, "returned")
         ELSE replace_template_placeholders(workspace_dir, data.opts)

configure_template_options(workspace_dir) ==
    IF DescriptorName \notin DOMAIN workspace_dir
    THEN NoCall(workspace_dir, "ActionBuildError")
    ELSE ConfigureWith(workspace_dir, json_load(workspace_dir[DescriptorName]))

\* the descriptor a call of configure_template_options reads from the
\* workspace (lines 142-149)
ReadDescriptor(workspace_dir) ==
    IF DescriptorName \in DOMAIN workspace_dir
    THEN json_load(workspace_dir[DescriptorName])
    ELSE [kind |-> "missing", opts |-> <<>>]

\* --------------------------------------------------------- directory trees
\* A directory maps every name to an entry; an entry is absent, a regular
\* file, a directory of regular files, or a special file (fifo, socket).
\* The content of a regular file is named after the place it comes from.
NameList == <<"test.sh", "test-utils.sh", "lib", "data">>
Names == { NameList[i] : i \in 1..MaxNames }
KidNames == Names \cup {"helper.sh"}

Absent == [kind |-> "absent", data |-> "", kids |-> [k \in KidNames |-> ""]]
File(data) == [kind |-> "file", data |-> data, kids |-> [k \in KidNames |-> ""]]
Special == [kind |-> "special", data |-> "", kids |-> [k \in KidNames |-> ""]]
Dir(kids) == [kind |-> "dir", data |-> "", kids |-> kids]
HelperDir(data) == Dir([k \in KidNames |-> IF k = "helper.sh" THEN data ELSE ""])

NoPath == [kind |-> "absent", ents |-> [n \in Names |-> Absent]]
FilePath == [kind |-> "file", ents |-> [n \in Names |-> Absent]]
DirPath(ents) == [kind |-> "dir", ents |-> ents]

\* ------------------------------------------------------------ copy_contents
KeepExistingFile(target, name, data) == IF target.kind = "absent" THEN File(data) ELSE target

\* shutil.copy2(child, target): into the directory when target is one, else
\* over whatever is there
CopyFile(target, name, data) ==
    IF target.kind = "dir"
    THEN Dir([k \in KidNames |-> IF k = name THEN data ELSE target.kids[k]])
    ELSE File(data)

\* shutil.copytree(child, target, dirs_exist_ok=True) raises when target is a
\* regular file
TreeRaises(target) == target.kind = "file"

MergeTree(target, child) ==
    Dir([k \in KidNames |-> IF child.kids[k] # "" THEN child.kids[k] ELSE target.kids[k]])

\* one iteration of the loop of lines 100-107
ChildRaises(child, target) == child.kind = "dir" /\ TreeRaises(target)

CopyChild(child, target, name) ==
    CASE child.kind = "dir" -> MergeTree(target, child)
      [] child.kind = "file" -> CopyFile(target, name, child.data)
      [] OTHER -> target

\* the children in `done` are copied; iterdir yields them in any order, so
\* when a child raises any set of the others may have been copied before
CopyChildren(src_ents, dest_ents, done) ==
    [n \in Names |-> IF n \in done THEN CopyChild(src_ents[n], dest_ents[n], n)
                     ELSE dest_ents[n]]

\* the possible outcomes of copy_contents(src_dir, dest_dir), dest_dir being
\* a directory
CopyContentsOutcomes(src_ents, dest_ents) ==
    LET raising == { n \in Names : ChildRaises(src_ents[n], dest_ents[n]) }
    IN IF raising = {}
       THEN { [raised |-> FALSE, ents |-> CopyChildren(src_ents, dest_ents, Names)] }
       ELSE { [raised |-> TRUE, ents |-> CopyChildren(src_ents, dest_ents, done)]
              : done \in SUBSET (Names \ raising) }

\* ------------------------------------------------------ copy_test_directory
\* the possible outcomes of lines 203-215
CopyTestDirectoryOutcomes(test_dir, utils_dir, dest) ==
    IF test_dir.kind # "dir"
    THEN { [status |-> "returned", dest |-> dest] }
    ELSE IF dest.kind = "file"
    THEN { [status |-> "FileExistsError", dest |-> dest] }
    ELSE UNION {
            IF first.raised
            THEN { [status |-> "FileExistsError", dest |-> DirPath(first.ents)] }
            ELSE IF utils_dir.kind # "dir"
            THEN { [status |-> "returned", dest |-> DirPath(first.ents)] }
            ELSE { [status |-> IF second.raised THEN "FileExistsError" ELSE "returned",
                    dest |-> DirPath(second.ents)]
                   : second \in CopyContentsOutcomes(utils_dir.ents, first.ents) }
            : first \in CopyContentsOutcomes(test_dir.ents, dest.ents) }

\* ----------------------------------------- specification of the test overlay
SourceEntries(data) == { Absent, File(data), HelperDir(data), Special }
DestEntries == { Absent, File("old"), HelperDir("old") }

TestDirs ==
    { NoPath, FilePath } \cup { DirPath(e) : e \in [Names -> SourceEntries("template")] }
UtilsDirs ==
    { NoPath } \cup { DirPath(e) : e \in [Names -> SourceEntries("utils")] }
DestDirs ==
    { NoPath, FilePath } \cup { DirPath(e) : e \in [Names -> DestEntries] }

\* the workspace outside of its test directory
PlainWorkspace ==
    [p \in {DescriptorName, ConfigName} |->
        IF p = DescriptorName THEN ToJson([kind |-> "noopts", opts |-> <<>>]) ELSE <<120>>]

InitCopy ==
    /\ files = PlainWorkspace
    /\ hist = <<>>
    /\ testDir \in TestDirs
    /\ utilsDir \in UtilsDirs
    /\ wsTest \in DestDirs
    /\ copyHist = <<>>
    /\ MainIdle

\* one call of copy_test_directory
CopyTestDirectory ==
    /\ copyHist = <<>>
    /\ \E r \in CopyTestDirectoryOutcomes(testDir, utilsDir, wsTest) :
          /\ wsTest' = r.dest
          /\ copyHist' = Append(copyHist, [before |-> wsTest, filesBefore |-> files,
                                           status |-> r.status])
    /\ UNCHANGED <<files, hist, testDir, utilsDir>>
    /\ UNCHANGED mainVars

NextCopy == CopyTestDirectory

\* ------------------------------------- specification of the configuration
InitConfigure ==
    /\ files \in Workspaces
    /\ hist = <<>>
    /\ testDir = NoPath
    /\ utilsDir = NoPath
    /\ wsTest = NoPath
    /\ copyHist = <<>>
    /\ MainIdle

\* one call of configure_template_options on the workspace as it is
ConfigureTemplateOptions ==
    /\ Len(hist) < MaxRuns
    /\ \E r \in {configure_template_options(files)} :
          /\ files' = r.files
          /\ hist' = Append(hist, [before |-> files,
                                   doc |-> ReadDescriptor(files),
                                   status |-> r.status,
                                   key |-> r.key,
                                   calls |-> r.calls,
                                   after |-> r.files])
    /\ UNCHANGED copyVars
    /\ UNCHANGED mainVars

NextConfigure == ConfigureTemplateOptions

vars == <<files, hist, testDir, utilsDir, wsTest, copyHist, pc, action, tmpdir, gha,
          srcDir, stages, error, raisedIn, exitCode, stdout, ghaFile, cmd, cleanup>>

SpecConfigure == InitConfigure /\ [][NextConfigure]_vars

SpecCopy == InitCopy /\ [][NextCopy]_vars

\* ---------------------------------------------------------------------- run
\* What subprocess.run meets: the executable is missing, or the command
\* exits with a status, a standard output and a standard error.
NotFound == [kind |-> "notfound", code |-> 0, stdout |-> <<>>, stderr |-> <<>>]
Exited(code, out, err) == [kind |-> "exit", code |-> code, stdout |-> out, stderr |-> err]

Outputs == { <<>>, <<10>>, <<111, 107, 10>> }     \* "", "\n", "ok\n"

Commands == { NotFound } \cup { Exited(c, o, e) : c \in {0, 1}, o \in Outputs, e \in Outputs }

RunNoStrip(o) ==
    IF o.kind = "notfound" \/ o.code # 0 THEN <<>>
    ELSE IF o.stdout # <<>> THEN o.stdout
    ELSE o.stderr

\* the string run(cmd) returns (lines 62-83)
Run(o) ==
    IF o.kind = "notfound" \/ o.code # 0 THEN <<>>
    ELSE IF o.stdout # <<>> THEN Strip(o.stdout)
    ELSE IF o.stderr # <<>> THEN Strip(o.stderr)
    ELSE <<>>

\* truth value of a string or None
Truthy(v) == v.given /\ v.value # <<>>

\* --------------------------------------------------------------------- main
WorkspacePath == <<47, 116, 109, 112, 47, 115, 109, 111, 107, 101, 95, 48, 47, 116>>

\* f"workspace={workspace_dir}\n"
OutputLine == <<119, 111, 114, 107, 115, 112, 97, 99, 101, 61>> \o WorkspacePath \o <<10>>

ExitCodeOfActionBuildError(e) == IF e = "ActionBuildError" THEN 1 ELSE 0

\* lines 388-398: both handlers exit with 1
ExitCode(e) == IF e = "none" THEN 0 ELSE 1

\* an exception leaves the stage and reaches main
Raise(stage, e) ==
    /\ error' = e
    /\ raisedIn' = stage
    /\ exitCode' = ExitCode(e)
    /\ pc' = "exit"

\* the stage is left normally
Continue(next) ==
    /\ pc' = next
    /\ UNCHANGED <<error, raisedIn, exitCode>>

\* main returns
Return ==
    /\ pc' = "exit"
    /\ exitCode' = ExitCode("none")
    /\ UNCHANGED <<error, raisedIn>>

\* prepare_workspace: the template is copied and configured
PrepareWorkspace ==
    /\ pc = "start" /\ action = "build"
    /\ stages' = Append(stages, "prepare_workspace")
    /\ IF ~srcDir.exists
       THEN /\ Raise("prepare_workspace", "ActionBuildError")
            /\ UNCHANGED <<files, hist>>
       ELSE \E r \in {configure_template_options(srcDir.files)} :
               /\ files' = r.files
               /\ hist' = Append(hist, [before |-> srcDir.files,
                                        doc |-> ReadDescriptor(srcDir.files),
                                        status |-> r.status,
                                        key |-> r.key,
                                        calls |-> r.calls,
                                        after |-> r.files])
               /\ IF r.status = "returned"
                  THEN Continue("prepared")
                  ELSE Raise("prepare_workspace", r.status)
    /\ UNCHANGED <<copyVars, argVars, outVars, cmd, cleanup>>

\* copy_test_directory on the prepared workspace
CopyTestDirectoryStage ==
    /\ pc = "prepared"
    /\ stages' = Append(stages, "copy_test_directory")
    /\ \E r \in CopyTestDirectoryOutcomes(testDir, utilsDir, wsTest) :
          /\ wsTest' = r.dest
          /\ copyHist' = Append(copyHist, [before |-> wsTest, filesBefore |-> files,
                                           status |-> r.status])
          /\ IF r.status = "returned"
             THEN Continue("overlaid")
             ELSE Raise("copy_test_directory", r.status)
    /\ UNCHANGED <<files, hist, testDir, utilsDir, argVars, outVars, cmd, cleanup>>

\* ensure_devcontainers_cli: npm must be on PATH; the outcome of the
\* installation is not looked at
EnsureDevcontainersCli ==
    /\ pc = "overlaid"
    /\ stages' = Append(stages, "ensure_devcontainers_cli")
    /\ \E npm \in BOOLEAN :
          IF npm
          THEN \E o \in Commands : Continue("cli")
          ELSE Raise("ensure_devcontainers_cli", "ActionBuildError")
    /\ UNCHANGED <<cfgVars, copyVars, argVars, outVars, cmd, cleanup>>

\* devcontainer_up: an empty string from run is taken as failure
DevcontainerUp ==
    /\ pc = "cli"
    /\ stages' = Append(stages, "devcontainer_up")
    /\ \E o \in Commands :
          /\ cmd' = o
          /\ IF Run(o) = <<>>
             THEN Raise("devcontainer_up", "ActionBuildError")
             ELSE Continue("up")
    /\ UNCHANGED <<cfgVars, copyVars, argVars, outVars, cleanup>>

PrintsAlways(gha_output) == TRUE

\* line 370: the else branch of `if gha_output`
Prints(gha_output) == ~Truthy(gha_output)

\* lines 361-372: the workspace path is written out; opening the file may fail
EmitWorkspacePath ==
    /\ pc = "up"
    /\ stages' = Append(stages, "output")
    /\ \/ /\ Truthy(gha)
          /\ ghaFile' = Append(ghaFile, OutputLine)
          /\ stdout' = IF Prints(gha) THEN Append(stdout, WorkspacePath) ELSE stdout
          /\ Return
       \/ /\ Truthy(gha)
          /\ Raise("output", "ActionBuildError")
          /\ UNCHANGED outVars
       \/ /\ ~Truthy(gha)
          /\ stdout' = IF Prints(gha) THEN Append(stdout, WorkspacePath) ELSE stdout
          /\ ghaFile' = ghaFile
          /\ Return
    /\ UNCHANGED <<cfgVars, copyVars, argVars, cmd, cleanup>>

\* start_action for "test" up to the end of the try statement of
\* exec_test_action (lines 374-341)
ExecTest ==
    /\ pc = "start" /\ action = "test"
    /\ IF ~Truthy(tmpdir)
       THEN /\ Raise("start_action", "ActionBuildError")
            /\ UNCHANGED <<stages, cmd, stdout>>
       ELSE /\ stages' = Append(stages, "test")
            /\ \E o \in Commands :
                  /\ cmd' = o
                  /\ IF o.kind = "notfound" \/ o.code # 0
                     THEN /\ Raise("test", "ActionBuildError")
                          /\ stdout' = stdout
                     ELSE /\ stdout' = IF Strip(o.stdout) # <<>>
                                       THEN Append(stdout, Strip(o.stdout))
                                       ELSE stdout
                          /\ Continue("cleanup")
    /\ UNCHANGED <<cfgVars, copyVars, argVars, ghaFile, cleanup>>

\* cleanup_docker_containers: docker rm only when docker ps printed ids
CleanupDockerContainers ==
    /\ pc = "cleanup"
    /\ stages' = Append(stages, "cleanup_docker_containers")
    /\ \E ps \in Commands :
          cleanup' = [cleanup EXCEPT !.ps = TRUE, !.rm = (Run(ps) # <<>>)]
    /\ Continue("rmtree")
    /\ UNCHANGED <<cfgVars, copyVars, argVars, outVars, cmd>>

\* shutil.rmtree(workspace_dir, ignore_errors=True), then main returns
RemoveWorkspace ==
    /\ pc = "rmtree"
    /\ stages' = Append(stages, "rmtree")
    /\ cleanup' = [cleanup EXCEPT !.rmtree = TRUE]
    /\ \/ /\ files' = NoFiles
          /\ wsTest' = NoPath
       \/ UNCHANGED <<files, wsTest>>
    /\ Return
    /\ UNCHANGED <<hist, testDir, utilsDir, copyHist, argVars, outVars, cmd>>

\* ------------------------------------------- specification of the process
Template(doc) ==
    [p \in {DescriptorName, ConfigName} |->
        IF p = DescriptorName THEN ToJson(doc) ELSE Utf8Encode(Placeholder(KeyA))]

Option(key, spec) == [key |-> key, spec |-> spec]

\* the templates a build is run on
BuildSources ==
    { NoSource,
      Source([p \in {ConfigName} |-> <<120>>]),
      Source([p \in {DescriptorName, ConfigName} |->
                 IF p = DescriptorName THEN <<123>> ELSE <<120>>]),
      Source(Template([kind |-> "noopts", opts |-> <<>>])),
      Source(Template([kind |-> "map", opts |-> <<Option(KeyA, StrSpec(<<49>>))>>])),
      Source(Template([kind |-> "map", opts |-> <<Option(KeyA, NoDefault)>>])) }

BuildTestDirs == { NoPath, DirPath([n \in Names |-> File("template")]) }
BuildUtilsDirs == { NoPath, DirPath([n \in Names |-> HelperDir("utils")]) }

EnvValues == { None, Given(<<>>),
               Given(<<47, 103, 105, 116, 104, 117, 98, 47, 111, 117, 116, 112, 117, 116>>) }

TmpdirValues == { None, Given(<<>>), Given(WorkspacePath) }

Started ==
    /\ pc = "start"
    /\ hist = <<>>
    /\ copyHist = <<>>
    /\ stages = <<>>
    /\ error = "none"
    /\ raisedIn = ""
    /\ exitCode = -1
    /\ stdout = <<>>
    /\ ghaFile = <<>>
    /\ cmd = NoCommand
    /\ cleanup = NoCleanup
    /\ gha \in EnvValues

Init ==
    /\ Started
    /\ \/ /\ action = "build"
          /\ tmpdir = None
          /\ srcDir \in BuildSources
          /\ files = NoFiles
          /\ wsTest = NoPath
          /\ testDir \in BuildTestDirs
          /\ utilsDir \in BuildUtilsDirs
       \/ /\ action = "test"
          /\ tmpdir \in TmpdirValues
          /\ srcDir = NoSource
          /\ files = PlainWorkspace
          /\ wsTest \in { NoPath, DirPath([n \in Names |-> File("template")]) }
          /\ testDir = NoPath
          /\ utilsDir = NoPath

Next ==
    \/ PrepareWorkspace
    \/ CopyTestDirectoryStage
    \/ EnsureDevcontainersCli
    \/ DevcontainerUp
    \/ EmitWorkspacePath
    \/ ExecTest
    \/ CleanupDockerContainers
    \/ RemoveWorkspace

Spec == Init /\ [][Next]_vars

\* ------------------------------------------------ claims on configuration
Runs == 1..Len(hist)

Token(key) == Utf8Encode(Placeholder(key))

\* a default that is present and, when a string, not blank
NonBlankDefault(sp) ==
    sp.t = "int" \/ (sp.t = "str" /\ \E x \in 1..Len(sp.s) : ~IsSpace(sp.s[x]))

\* no usable default: no object, no default, or a blank string
Unusable(sp) ==
    sp.t \in {"nonobj", "absent"} \/ (sp.t = "str" /\ \A x \in 1..Len(sp.s) : IsSpace(sp.s[x]))

AllNonBlank(doc) ==
    doc.kind = "map" /\ \A k \in 1..Len(doc.opts) : NonBlankDefault(doc.opts[k].spec)

Bytes(seq) == { seq[x] : x \in 1..Len(seq) }

\* no default's string form has a byte in common with a declared placeholder
DefaultsForeign(opts) ==
    \A j, k \in 1..Len(opts) :
        Bytes(Utf8Encode(PyStr(opts[j].spec))) \cap Bytes(Token(opts[k].key)) = {}

\* no key contains "$" or "}"
KeysPlain(opts) == \A k \in 1..Len(opts) : Bytes(opts[k].key) \cap {36, 125} = {}

NoTokenLeft(fs, opts) ==
    \A p \in DOMAIN fs : \A k \in 1..Len(opts) : ~Contains(fs[p], Token(opts[k].key))

Perms(opts) ==
    { [i \in 1..Len(opts) |-> opts[f[i]]] :
        f \in { g \in [1..Len(opts) -> 1..Len(opts)] :
                  \A x, y \in 1..Len(opts) : g[x] = g[y] => x = y } }

\* C2, as claimed: with only non-blank defaults the call returns and no file
\* contains the placeholder of a declared key.
C2_TokensAbsentForAnyDefaults ==
    \A i \in Runs :
        AllNonBlank(hist[i].doc) =>
            /\ hist[i].status = "returned"
            /\ NoTokenLeft(hist[i].after, hist[i].doc.opts)

\* C2, amended: with only non-blank defaults whose string forms share no byte
\* with any declared placeholder, the call returns and no file contains the
\* placeholder of a declared key.
C2_TokensAbsent ==
    \A i \in Runs :
        AllNonBlank(hist[i].doc) /\ DefaultsForeign(hist[i].doc.opts) =>
            /\ hist[i].status = "returned"
            /\ NoTokenLeft(hist[i].after, hist[i].doc.opts)

C2_Witness ==
    \E i \in Runs :
        /\ AllNonBlank(hist[i].doc) /\ DefaultsForeign(hist[i].doc.opts)
        /\ Len(hist[i].doc.opts) = 2
        /\ \A c \in 1..Len(hist[i].calls) : hist[i].calls[c].written # {}
        /\ ~NoTokenLeft(hist[i].before, hist[i].doc.opts)
        /\ hist[i].status = "returned"

\* C3, as claimed: after a call that returned, a second call changes the
\* bytes of no file.
C3_SecondRunNoOpAlways ==
    \A i \in Runs :
        i > 1 /\ hist[i - 1].status = "returned" => hist[i].after = hist[i].before

\* C3, amended: after a call that returned and left no placeholder of a key
\* the re-read descriptor declares, a second call changes the bytes of no
\* file and rewrites none.
C3_SecondRunNoOp ==
    \A i \in Runs :
        /\ i > 1
        /\ hist[i - 1].status = "returned"
        /\ NoTokenLeft(hist[i].before, hist[i].doc.opts)
        => /\ hist[i].after = hist[i].before
           /\ \A c \in 1..Len(hist[i].calls) : hist[i].calls[c].written = {}

C3_Witness ==
    /\ Len(hist) >= 2
    /\ hist[1].status = "returned"
    /\ \E c \in 1..Len(hist[1].calls) : hist[1].calls[c].written # {}
    /\ NoTokenLeft(hist[2].before, hist[2].doc.opts)
    /\ Len(hist[2].calls) = 2
    /\ hist[2].after = hist[2].before

\* C4, as claimed: with only non-blank defaults, every processing order of
\* the keys leaves the same bytes in every file.
C4_AnyOrderSameBytesAlways ==
    \A i \in Runs :
        AllNonBlank(hist[i].doc) =>
            \A perm \in Perms(hist[i].doc.opts) :
                replace_template_placeholders(hist[i].before, perm).files = hist[i].after

\* C4, amended: with only non-blank defaults whose string forms share no byte
\* with any declared placeholder, and keys without "$" and "}", every
\* processing order of the keys leaves the same bytes in every file.
C4_AnyOrderSameBytes ==
    \A i \in Runs :
        /\ AllNonBlank(hist[i].doc)
        /\ DefaultsForeign(hist[i].doc.opts)
        /\ KeysPlain(hist[i].doc.opts)
        => \A perm \in Perms(hist[i].doc.opts) :
               replace_template_placeholders(hist[i].before, perm).files = hist[i].after

C4_Witness ==
    \E i \in Runs :
        /\ AllNonBlank(hist[i].doc)
        /\ DefaultsForeign(hist[i].doc.opts)
        /\ KeysPlain(hist[i].doc.opts)
        /\ Len(hist[i].doc.opts) = 2
        /\ hist[i].doc.opts[1].spec # hist[i].doc.opts[2].spec
        /\ \A c \in 1..Len(hist[i].calls) :
               ConfigName \in hist[i].calls[c].written
        /\ hist[i].status = "returned"

\* C5: at the first key without usable default the call raises
\* ActionBuildError naming that key; replace_in_files was called for the
\* keys before it, in order, and for no other key, and the files are as the
\* last of these calls left them.
C5_FailFastNoRollback ==
    \A i \in Runs :
        hist[i].doc.kind = "map" =>
            \A k \in 1..Len(hist[i].doc.opts) :
                /\ Unusable(hist[i].doc.opts[k].spec)
                /\ \A j \in 1..(k - 1) : ~Unusable(hist[i].doc.opts[j].spec)
                => /\ hist[i].status = "ActionBuildError"
                   /\ hist[i].key = hist[i].doc.opts[k].key
                   /\ Len(hist[i].calls) = k - 1
                   /\ \A j \in 1..(k - 1) :
                          /\ hist[i].calls[j].search_term
                                = Placeholder(hist[i].doc.opts[j].key)
                          /\ hist[i].calls[j].before
                                = (IF j = 1 THEN hist[i].before
                                   ELSE hist[i].calls[j - 1].after)
                   /\ hist[i].after
                        = (IF k = 1 THEN hist[i].before ELSE hist[i].calls[k - 1].after)

C5_Witness ==
    \E i \in Runs :
        /\ hist[i].status = "ActionBuildError"
        /\ Len(hist[i].doc.opts) = 2
        /\ hist[i].key = hist[i].doc.opts[2].key
        /\ hist[i].doc.opts[2].spec = StrSpec(<<32>>)
        /\ Len(hist[i].calls) = 1
        /\ hist[i].calls[1].written # {}
        /\ hist[i].after # hist[i].before
        /\ \E p \in DOMAIN hist[i].after : Contains(hist[i].after[p], Token(hist[i].key))

\* C6: a call of replace_in_files neither rewrites nor changes a file whose
\* bytes do not contain the encoded search term.
C6_UntouchedWithoutTerm ==
    \A i \in Runs : \A c \in 1..Len(hist[i].calls) :
        LET call == hist[i].calls[c]
        IN \A p \in DOMAIN call.before :
               ~Contains(call.before[p], Utf8Encode(call.search_term)) =>
                   /\ p \notin call.written
                   /\ call.after[p] = call.before[p]

C6_Witness ==
    \E i \in Runs : \E c \in 1..Len(hist[i].calls) :
        LET call == hist[i].calls[c]
        IN \E p, q \in DOMAIN call.before :
               /\ ~Contains(call.before[p], Utf8Encode(call.search_term))
               /\ p \notin call.written
               /\ q \in call.written
               /\ call.after[q] # call.before[q]

\* --------------------------------------------------- claims on the overlay
HasEntry(dir, n) == dir.kind = "dir" /\ dir.ents[n].kind \in {"file", "dir"}

HasFile(dir, n) == dir.kind = "dir" /\ dir.ents[n].kind = "file"

IsDirIn(dir, n) == dir.kind = "dir" /\ dir.ents[n].kind = "dir"

\* C8, as claimed: without per-template test directory nothing changes;
\* otherwise every name holds the utils version if utils has it, else the
\* per-template version if there is one, else what was there before; the
\* files elsewhere are untouched.
C8_OverlayAnyEntries ==
    \A i \in 1..Len(copyHist) :
        LET before == copyHist[i].before
        IN /\ files = copyHist[i].filesBefore
           /\ testDir.kind # "dir" => wsTest = before
           /\ testDir.kind = "dir" =>
                 /\ wsTest.kind = "dir"
                 /\ \A n \in Names :
                       wsTest.ents[n] =
                           IF HasEntry(utilsDir, n) THEN utilsDir.ents[n]
                           ELSE IF HasEntry(testDir, n) THEN testDir.ents[n]
                           ELSE before.ents[n]

\* C8, amended: without per-template test directory nothing changes;
\* otherwise, when the call returns, every name that is a directory in none
\* of the three places holds the regular file of utils if utils has one,
\* else the per-template regular file if there is one, else what was there
\* before; the files elsewhere are untouched.
C8_Overlay ==
    \A i \in 1..Len(copyHist) :
        LET before == copyHist[i].before
        IN /\ files = copyHist[i].filesBefore
           /\ testDir.kind # "dir" => wsTest = before /\ copyHist[i].status = "returned"
           /\ testDir.kind = "dir" /\ copyHist[i].status = "returned" =>
                 /\ wsTest.kind = "dir"
                 /\ \A n \in Names :
                       ~IsDirIn(testDir, n) /\ ~IsDirIn(utilsDir, n) /\ ~IsDirIn(before, n) =>
                           wsTest.ents[n] =
                               IF HasFile(utilsDir, n) THEN utilsDir.ents[n]
                               ELSE IF HasFile(testDir, n) THEN testDir.ents[n]
                               ELSE before.ents[n]

C8_Witness ==
    /\ Len(copyHist) = 1
    /\ copyHist[1].status = "returned"
    /\ \E n, m \in Names :
          /\ HasFile(utilsDir, n) /\ HasFile(testDir, n) /\ HasFile(copyHist[1].before, n)
          /\ wsTest.ents[n] = File("utils")
          /\ ~HasFile(utilsDir, m) /\ HasFile(testDir, m)
          /\ wsTest.ents[m] = File("template")

\* --------------------------------------------------- claims on the process
BuildStages ==
    <<"prepare_workspace", "copy_test_directory", "ensure_devcontainers_cli",
      "devcontainer_up", "output">>

IsPrefix(a, b) == Len(a) <= Len(b) /\ a = SubSeq(b, 1, Len(a))

Entered(stage) == \E k \in 1..Len(stages) : stages[k] = stage

AllSpace(str) == \A x \in 1..Len(str) : IsSpace(str[x])

\* C1: once the test command was invoked, the process does not end before
\* the removal of the containers and of the workspace were attempted.
C1_CleanupAlwaysAttempted ==
    action = "test" /\ Entered("test") /\ pc = "exit" => cleanup.ps /\ cleanup.rmtree

\* C7: the stages of a build are entered in their order, each at most once
\* and only after the ones before it returned; the stage that raises is the
\* last one entered and the process exits with 1; it exits with 0 only after
\* all five stages, none of which raised.
C7_StagesInOrder ==
    action = "build" =>
        /\ IsPrefix(stages, BuildStages)
        /\ error # "none" =>
              /\ stages # <<>> /\ raisedIn = stages[Len(stages)]
              /\ pc = "exit" /\ exitCode = 1
        /\ error = "none" => exitCode \in {-1, 0} /\ (pc = "exit" <=> exitCode = 0)
        /\ exitCode = 0 => stages = BuildStages
        /\ pc # "exit" => exitCode = -1

C7_Witness ==
    /\ action = "build"
    /\ Len(stages) = 2
    /\ error = "FileExistsError"
    /\ raisedIn = "copy_test_directory"
    /\ exitCode = 1

\* the path reached neither channel
NothingEmitted == stdout = <<>> /\ ghaFile = <<>>

\* C9, as claimed: the path is emitted only after container start succeeded;
\* a successful build with GITHUB_OUTPUT set appends the line to the file
\* and prints nothing, one without it prints the path; a failed build emits
\* nothing.
C9_OneChannelWhenSet ==
    action = "build" =>
        /\ ~NothingEmitted => Entered("devcontainer_up") /\ Run(cmd) # <<>> /\ error = "none"
        /\ exitCode = 0 =>
              IF gha.given
              THEN ghaFile = <<OutputLine>> /\ stdout = <<>>
              ELSE stdout = <<WorkspacePath>> /\ ghaFile = <<>>
        /\ exitCode = 1 => NothingEmitted

\* C9, amended: as above, with GITHUB_OUTPUT set to a non-empty value for
\* the file, and unset or empty for standard output.
C9_OneChannel ==
    action = "build" =>
        /\ ~NothingEmitted => Entered("devcontainer_up") /\ Run(cmd) # <<>> /\ error = "none"
        /\ exitCode = 0 =>
              IF gha.given /\ gha.value # <<>>
              THEN ghaFile = <<OutputLine>> /\ stdout = <<>>
              ELSE stdout = <<WorkspacePath>> /\ ghaFile = <<>>
        /\ exitCode = 1 => NothingEmitted

C9_Witness ==
    /\ action = "build"
    /\ exitCode = 0
    /\ gha.given /\ gha.value # <<>>
    /\ ghaFile = <<OutputLine>>
    /\ stdout = <<>>

\* C10, as claimed: devcontainer_up raises exactly when run returned the
\* empty string, which is when the command exited non-zero, was not found,
\* or exited with 0 and empty standard output and standard error.
C10_EmptyOnlyWithoutOutput ==
    Entered("devcontainer_up") =>
        /\ raisedIn = "devcontainer_up" <=> Run(cmd) = <<>>
        /\ raisedIn = "devcontainer_up" <=>
              \/ cmd.kind = "notfound"
              \/ cmd.code # 0
              \/ cmd.stdout = <<>> /\ cmd.stderr = <<>>
        /\ raisedIn = "devcontainer_up" => error = "ActionBuildError"
        /\ raisedIn # "devcontainer_up" => error = "none" \/ raisedIn = "output"

\* C10, amended: ... or exited with 0 and a standard output of white space
\* only, or with 0, an empty standard output and a standard error that is
\* empty or white space only.
C10_EmptyOutputFails ==
    Entered("devcontainer_up") =>
        /\ raisedIn = "devcontainer_up" <=> Run(cmd) = <<>>
        /\ raisedIn = "devcontainer_up" <=>
              \/ cmd.kind = "notfound"
              \/ cmd.code # 0
              \/ cmd.stdout # <<>> /\ AllSpace(cmd.stdout)
              \/ cmd.stdout = <<>> /\ AllSpace(cmd.stderr)
        /\ raisedIn = "devcontainer_up" => error = "ActionBuildError"
        /\ raisedIn # "devcontainer_up" => error = "none" \/ raisedIn = "output"

C10_Witness ==
    /\ Entered("devcontainer_up")
    /\ raisedIn = "devcontainer_up"
    /\ cmd.kind = "exit" /\ cmd.code = 0
    /\ cmd.stdout = <<10>> /\ cmd.stderr # <<>> /\ ~AllSpace(cmd.stderr)

=============================================================================
